---------------------------- MODULE Spec2Model ----------------------------
(***************************************************************************)
(* State-machine model of teamspeak-observer.rs: the ServerQuery session   *)
(* (src/src/socketlib.rs), the observer task staff_thread, the notifier    *)
(* task telegram_thread and the shutdown coordinator observer()            *)
(* (src/src/main.rs).                                                      *)
(*                                                                         *)
(* Text is a sequence of tokens.  LF and CR are the bytes '\n' and '\r';   *)
(* every other token stands for a maximal run of bytes holding neither:    *)
(* an event record, a status line "error id=.. msg=..", a '|'-separated    *)
(* list of client records, or other text.  Splitting, trimming and prefix  *)
(* tests are computed on the tokens the way the code computes them on the  *)
(* bytes.                                                                  *)
(***************************************************************************)
EXTENDS Integers, Sequences, FiniteSets, TLC

----------------------------------------------------------------------------
(* Bounds of the model *)

\* successful chunk reads of the poll loop that carry event bytes
MaxReads == 2
\* times the watchdog sets the liveness flag
MaxTicks == 1
\* lines of a response text handed to the decoders
MaxLines == 2
\* capacity of the notification queue in the model (mpsc::channel(4096) in
\* the code, main.rs:239); kept small so that a full queue is reachable
QueueCap == 1

----------------------------------------------------------------------------
(* Program constants *)

BUFFER_SIZE == 512

\* a read shorter than the buffer
ShortSize == BUFFER_SIZE - 1

----------------------------------------------------------------------------
(* Tokens of the protocol text *)

LF == [kind |-> "LF"]
CR == [kind |-> "CR"]

\* "notifycliententerview ... clid=<c> client_nickname=<n>
\*  client_unique_identifier=<u> ..."
EnterTok(c, n, u) ==
    [kind |-> "enter", ok |-> TRUE, clid |-> c, nick |-> n, uid |-> u]
\* "notifyclientleftview ... clid=<c> ..."
LeftTok(c) == [kind |-> "left", ok |-> TRUE, clid |-> c]
\* a line with the keyword whose fields do not decode
BadEnterTok == [kind |-> "enter", ok |-> FALSE]
BadLeftTok == [kind |-> "left", ok |-> FALSE]
\* "error id=<id> msg=.."
StatusTok(id) == [kind |-> "status", id |-> id]
\* "clid=.. cid=.. client_type=.. client_nickname=..|clid=.. ..."
RecordsTok(recs) == [kind |-> "records", recs |-> recs]
\* any other run of bytes (e.g. the body of the whoami reply)
OtherTok == [kind |-> "other"]

----------------------------------------------------------------------------
(* String functions of the standard library, on token sequences *)

Last(s) == s[Len(s)]
Front(s) == SubSeq(s, 1, Len(s) - 1)

\* index of the first LF of s, 0 when there is none
FirstLF(s) ==
    IF \E i \in 1..Len(s) : s[i] = LF
    THEN CHOOSE i \in 1..Len(s) : s[i] = LF /\ \A j \in 1..(i - 1) : s[j] /= LF
    ELSE 0

RECURSIVE SplitInclusive(_)
\* str::split_inclusive('\n'): every piece but possibly the last ends in LF
SplitInclusive(s) ==
    IF s = <<>> THEN <<>>
    ELSE IF FirstLF(s) = 0 THEN <<s>>
    ELSE <<SubSeq(s, 1, FirstLF(s))>>
         \o SplitInclusive(SubSeq(s, FirstLF(s) + 1, Len(s)))

\* str::lines maps each piece: strip one trailing '\n', and only then one
\* trailing '\r'
StripLine(p) ==
    IF Last(p) /= LF THEN p
    ELSE IF Front(p) /= <<>> /\ Last(Front(p)) = CR THEN Front(Front(p))
    ELSE Front(p)

\* str::lines
Lines(s) ==
    [i \in 1..Len(SplitInclusive(s)) |-> StripLine(SplitInclusive(s)[i])]

RECURSIVE TrimStart(_)
TrimStart(l) ==
    IF l /= <<>> /\ l[1] = CR THEN TrimStart(Tail(l)) ELSE l

RECURSIVE TrimEnd(_)
TrimEnd(l) ==
    IF l /= <<>> /\ Last(l) = CR THEN TrimEnd(Front(l)) ELSE l

\* str::trim on a line (the only whitespace of a line of the model is CR)
Trim(l) == TrimEnd(TrimStart(l))

\* str::starts_with(<keyword>), the keyword being the one token kind k
\* begins with
StartsWith(l, k) == l /= <<>> /\ l[1].kind = k

\* ret.contains("error id=")
ContainsStatus(s) == \E i \in 1..Len(s) : s[i].kind = "status"

\* ret.ends_with("\n\r")
EndsWithLFCR(s) == Len(s) >= 2 /\ s[Len(s) - 1] = LF /\ s[Len(s)] = CR

----------------------------------------------------------------------------
(* Decoding (datastructures.rs).  serde_teamspeak_querystring::from_str is *)
(* an external crate: a line that is exactly one well-formed record        *)
(* decodes to that record, anything else is a parser error.                *)

\* NotifyClientEnterView::from_query
FromQueryEnter(l) ==
    IF Len(l) = 1 /\ l[1].kind = "enter" /\ l[1].ok
    THEN [tag |-> "Ok", view |-> l[1]]
    ELSE [tag |-> "Err"]

\* NotifyClientLeftView::from_query
FromQueryLeft(l) ==
    IF Len(l) = 1 /\ l[1].kind = "left" /\ l[1].ok
    THEN [tag |-> "Ok", view |-> l[1]]
    ELSE [tag |-> "Err"]

----------------------------------------------------------------------------
(* Notifications (enum TelegramData).  The timestamp, the country and the  *)
(* reason are carried through unchanged by the code and are left out.      *)

\* TelegramData::from_enter
from_enter(view) ==
    [type |-> "Enter", clid |-> view.clid, uid |-> view.uid,
     nick |-> view.nick]

\* TelegramData::from_left
from_left(view, nickname) ==
    [type |-> "Left", clid |-> view.clid, nick |-> nickname]

Terminate == [type |-> "Terminate"]

\* impl Display for TelegramData (main.rs:61-90): the text of an Enter, the
\* text of a Left, and for Terminate the unreachable_unchecked() of line 86,
\* whose behaviour is undefined
to_string(m) ==
    CASE m.type = "Enter" -> <<"joined", m.nick, m.uid, m.clid>>
      [] m.type = "Left" -> <<"left", m.nick, m.clid>>
      [] OTHER -> <<"unreachable_unchecked">>

----------------------------------------------------------------------------
(* The client cache: HashMap<i64, (String, bool)>, a function from the     *)
(* client ids present to [nick, ignored].                                  *)

EmptyMap == [c \in {} |-> [nick |-> "", ignored |-> FALSE]]

\* HashMap::insert
Insert(m, k, v) == [c \in DOMAIN m \cup {k} |-> IF c = k THEN v ELSE m[c]]

\* HashMap::remove
Remove(m, k) == [c \in DOMAIN m \ {k} |-> m[c]]

----------------------------------------------------------------------------
(* The event classifier: the body of `for line in data.lines()`,          *)
(* main.rs:183-225.  The result says whether the task goes on ("Ok") or    *)
(* returns the decode error ("Err"), the cache after the line, and the     *)
(* notification handed to sender.send, if any.                             *)

\* is_server_query without its first operand: only the ignore list decides
is_server_query_list_only(view, ignore_list) ==
    \E element \in ignore_list : element = view.uid

\* is_server_query, main.rs:187-190
is_server_query(view, ignore_list) ==
    \/ view.uid = "ServerQuery"
    \/ \E element \in ignore_list : element = view.uid

\* the enter branch without the cache update: the notification is sent but
\* client_map is left as it was
OnEnterNoCache(line, map, ignore_list) ==
    LET r == FromQueryEnter(line) IN
    IF r.tag = "Err"
    THEN [tag |-> "Err", map |-> map, emit |-> <<>>, kind |-> "enter_err"]
    ELSE IF is_server_query(r.view, ignore_list)
         THEN [tag |-> "Ok", map |-> map, emit |-> <<>>,
               kind |-> "enter_ignored"]
         ELSE [tag |-> "Ok", map |-> map, emit |-> <<from_enter(r.view)>>,
               kind |-> "enter_notified"]

\* the branch of a line that starts with "notifycliententerview"
OnEnter(line, map, ignore_list) ==
    LET r == FromQueryEnter(line) IN
    IF r.tag = "Err"
    THEN [tag |-> "Err", map |-> map, emit |-> <<>>, kind |-> "enter_err"]
    ELSE LET ign == is_server_query(r.view, ignore_list)
             m2 == Insert(map, r.view.clid,
                          [nick |-> r.view.nick, ignored |-> ign])
         IN IF ign
            THEN [tag |-> "Ok", map |-> m2, emit |-> <<>>,
                  kind |-> "enter_ignored"]
            ELSE [tag |-> "Ok", map |-> m2, emit |-> <<from_enter(r.view)>>,
                  kind |-> "enter_notified"]

\* a left event for an unknown client treated as an error of the task
OnLeftUnknownFatal(map, view) ==
    [tag |-> "Err", map |-> map, emit |-> <<>>, kind |-> "left_unknown"]

\* a left event whose client id is not in the cache: warn! and continue
OnLeftUnknown(map, view) ==
    [tag |-> "Ok", map |-> map, emit |-> <<>>, kind |-> "left_unknown"]

\* a left event whose cache entry is marked ignored: continue
OnLeftIgnored(map, view) ==
    [tag |-> "Ok", map |-> map, emit |-> <<>>, kind |-> "left_ignored"]

\* the branch of a line that starts with "notifyclientleftview"
OnLeft(line, map) ==
    LET r == FromQueryLeft(line) IN
    IF r.tag = "Err"
    THEN [tag |-> "Err", map |-> map, emit |-> <<>>, kind |-> "left_err"]
    ELSE IF r.view.clid \notin DOMAIN map THEN OnLeftUnknown(map, r.view)
    ELSE IF map[r.view.clid].ignored THEN OnLeftIgnored(map, r.view)
    ELSE [tag |-> "Ok", map |-> Remove(map, r.view.clid),
          emit |-> <<from_left(r.view, map[r.view.clid].nick)>>,
          kind |-> "left_notified"]

\* one iteration of the loop over the lines of a frame
ClassifyLine(line, map, ignore_list) ==
    IF StartsWith(line, "enter") THEN OnEnter(line, map, ignore_list)
    ELSE IF StartsWith(line, "left") THEN OnLeft(line, map)
    ELSE [tag |-> "Ok", map |-> map, emit |-> <<>>, kind |-> "skip"]

----------------------------------------------------------------------------
(* Session: decoding of responses (socketlib.rs:16-48) and the seeding of  *)
(* the cache (main.rs:131-145).                                            *)

\* a client record "clid=<c> ... client_type=<t> client_nickname=<n>"
ClientRec(c, t, n) == [ok |-> TRUE, clid |-> c, client_type |-> t, nick |-> n]

\* "clid=<c> cid=<ch> client_database_id=<db> client_nickname=<n>
\*  client_type=<t> client_unique_identifier=<u>": one client of the reply to
\* clientlist, with the fields the query string carries
ClientTok(c, ch, db, t, u, n) ==
    [kind |-> "client", clid |-> c, cid |-> ch, client_database_id |-> db,
     client_type |-> t, client_unique_identifier |-> u, client_nickname |-> n]

\* Client::from_query on such a record: struct Client has no field for
\* client_unique_identifier (datastructures.rs:22), the key is skipped
ClientFromQuery(q) ==
    [clid |-> q.clid, cid |-> q.cid,
     client_database_id |-> q.client_database_id,
     client_type |-> q.client_type, client_nickname |-> q.client_nickname]

\* the accessors of Client (datastructures.rs:28-45)
client_id(self) == self.clid
channel_id(self) == self.cid
client_database_id(self) == self.client_database_id
client_type(self) == self.client_type
\* format!("{}", self.client_database_id)
client_unique_identifier(self) == ToString(self.client_database_id)
client_nickname(self) == self.client_nickname

\* indices of the lines of content that, trimmed, start with "error "
StatusLines(content) ==
    {i \in 1..Len(Lines(content)) : StartsWith(Trim(Lines(content)[i]), "status")}

Min(S) == CHOOSE x \in S : \A y \in S : x <= y

\* SocketConn::decode_status: Ok(content), Err(QueryError), or the panic!
\* of line 30 (and of the debug_assert!) when no status line is found
decode_status(content) ==
    IF StatusLines(content) = {} THEN [tag |-> "Panic"]
    ELSE IF Trim(Lines(content)[Min(StatusLines(content))])[1].id = 0
         THEN [tag |-> "Ok", content |-> content]
         ELSE [tag |-> "Err"]

\* the elements of line.split('|'), each through Client::from_query:
\* Ok(v) or the first parser error
DecodeClients(line) ==
    IF Len(line) = 1 /\ line[1].kind = "records"
       /\ \A i \in 1..Len(line[1].recs) : line[1].recs[i].ok
    THEN [tag |-> "Ok", value |-> [some |-> TRUE, v |-> line[1].recs]]
    ELSE [tag |-> "Err"]

\* indices of the lines that do not start with "error " (untrimmed)
ResultLines(content) ==
    {i \in 1..Len(Lines(content)) : ~StartsWith(Lines(content)[i], "status")}

\* SocketConn::decode_status_with_result::<Client>
decode_status_with_result(data) ==
    IF decode_status(data).tag /= "Ok" THEN decode_status(data)
    ELSE IF ResultLines(data) = {}
         THEN [tag |-> "Ok", value |-> [some |-> FALSE, v |-> <<>>]]
         ELSE DecodeClients(Lines(data)[Min(ResultLines(data))])

\* what query_operation_non_error makes of the frame: Ok(v), Err, or the
\* panic! of line 111 when there is no result line
query_operation_non_error(data) ==
    LET r == decode_status_with_result(data) IN
    IF r.tag /= "Ok" THEN r
    ELSE IF r.value.some THEN [tag |-> "Ok", v |-> r.value.v]
    ELSE [tag |-> "Panic"]

RECURSIVE SeedAll(_, _)
\* the seeding loop without the test of client_type
SeedAll(recs, map) ==
    IF recs = <<>> THEN map
    ELSE LET client == Head(recs) IN
         IF client.clid \in DOMAIN map
         THEN SeedAll(Tail(recs), map)
         ELSE SeedAll(Tail(recs),
                      Insert(map, client.clid,
                             [nick |-> client.nick, ignored |-> FALSE]))

RECURSIVE Seed(_, _)
\* the loop over query_clients(), main.rs:132-145
Seed(recs, map) ==
    IF recs = <<>> THEN map
    ELSE LET client == Head(recs) IN
         IF client.clid \in DOMAIN map \/ client.client_type = 1
         THEN Seed(Tail(recs), map)
         ELSE Seed(Tail(recs),
                   Insert(map, client.clid,
                          [nick |-> client.nick, ignored |-> FALSE]))

\* one pass of the loop of read_data (socketlib.rs:53-70) on the outcome of
\* the timed read: "more" (loop again), or the value returned
ReadStep(acc, outcome) ==
    IF outcome.t = "timeout" THEN [t |-> "none", ret |-> <<>>]
    ELSE IF outcome.t = "err" THEN [t |-> "err", ret |-> <<>>]
    ELSE LET r2 == acc \o outcome.chunk.text IN
         IF outcome.chunk.size < BUFFER_SIZE
            \/ (ContainsStatus(r2) /\ EndsWithLFCR(r2))
         THEN IF r2 = <<>> THEN [t |-> "none", ret |-> <<>>]
              ELSE [t |-> "some", ret |-> r2]
         ELSE [t |-> "more", ret |-> r2]

----------------------------------------------------------------------------
(* Inputs: the configuration and what the server sends *)

\* Config::server().ignore_user_name(): the configured ignore lists tried
IgnoreLists == {{}, {"bob"}, {"bob", "ServerQuery"}}

\* a client whose unique identifier is "bob", a client whose nickname is
\* "bob", and a ServerQuery client
EnterEvents ==
    {EnterTok(1, "alice", "bob"), EnterTok(2, "bob", "uidB"),
     EnterTok(2, "query", "ServerQuery")}

LeftEvents == {LeftTok(1), LeftTok(2)}

\* a line ended the way the server ends lines ("\n\r")
Line(tok) == <<tok, LF, CR>>
\* a line ended "\r\n"
LineCRLF(tok) == <<tok, CR, LF>>

EventTexts ==
    {Line(e) : e \in EnterEvents \cup LeftEvents \cup {BadEnterTok, BadLeftTok}}
    \cup {Line(EnterTok(1, "alice", "bob")) \o Line(LeftTok(1)),
          LineCRLF(LeftTok(2)) \o LineCRLF(EnterTok(2, "bob", "uidB"))}

\* event text that fills the read buffer exactly
FullTexts == {Line(EnterTok(1, "alice", "bob"))}

\* replies to clientlist
ListTexts ==
    {Line(RecordsTok(<<ClientRec(1, 0, "alice"), ClientRec(2, 1, "query")>>))
        \o Line(StatusTok(0)),
     Line(RecordsTok(<<ClientRec(2, 0, "bob"), ClientRec(2, 0, "dup")>>))
        \o Line(StatusTok(0)),
     Line(RecordsTok(<<ClientRec(2, 1, "query"), ClientRec(2, 0, "bob")>>))
        \o Line(StatusTok(0)),
     Line(StatusTok(0)),
     Line(StatusTok(1)),
     Line(OtherTok)}

\* replies to a command that returns a status only
StatusTexts == {Line(StatusTok(0)), Line(StatusTok(1))}

\* the reply to whoami
WhoamiTexts == {Line(OtherTok) \o Line(StatusTok(0))}

ReplyTexts(cmd) ==
    CASE cmd = "clientlist" -> ListTexts
      [] cmd = "servernotifyregister" -> StatusTexts
      [] cmd = "whoami" -> WhoamiTexts
      [] OTHER -> {}

----------------------------------------------------------------------------
(* State *)

VARIABLES
    ignore_list,  \* staff_thread's ignore_list (configuration)
    pc,           \* where staff_thread is suspended, or how it ended:
                  \* Listing, ListingRead, Subscribing, SubscribingRead,
                  \* Polling, PollRead, Keepalive, Classify, Sleep,
                  \* Draining, SendTerminate, or one of Ended
    ret,          \* read_data's local accumulator `ret`
    data,         \* the lines of the frame not yet classified
    client_map,   \* staff_thread's client_map
    queue,        \* the mpsc channel between the two tasks
    cancel,       \* the watch channel: exit_sender.send(true) has happened
    signal,       \* the liveness flag keepalive_signal
    tg,           \* where telegram_thread is, or how it ended
    cur,          \* the message telegram_thread is sending
    sel,          \* which select! of observer() is running
    interrupts,   \* interrupts the first select! has received
    proc,         \* the process: running, or how it exited
    conn,         \* the TCP stream: up or dead
    pending,      \* commands written whose reply has not been read
    \* history, read by the properties only
    written,      \* commands written to the stream, in order
    enqueued,     \* messages accepted by the queue, in order
    sinkLog,      \* messages handed to the sink, in order
    sinkFailed,   \* a send to the sink has failed
    reads,        \* event chunks read so far
    ticks,        \* times the watchdog has set the flag
    lost,         \* bytes (tokens) read from the stream and never returned
    probeFailed,  \* a keepalive write has returned an error
    lastStep      \* what the classifier did with the last line

vars ==
    <<ignore_list, pc, ret, data, client_map, queue, cancel, signal, tg, cur,
      sel, interrupts, proc, conn, pending, written, enqueued, sinkLog,
      sinkFailed, reads, ticks, lost, probeFailed, lastStep>>

obsVars == <<pc, ret, data, client_map, lastStep>>
sessVars == <<conn, pending, written, reads, lost>>
coordVars == <<cancel, sel, interrupts, proc>>
tgVars == <<tg, cur, sinkLog, sinkFailed>>

NoMsg == [type |-> "None"]

\* observer(), main.rs:238-257, after init_connection has logged in
Init ==
    /\ ignore_list \in IgnoreLists
    /\ pc = "Listing"
    /\ ret = <<>>
    /\ data = <<>>
    /\ client_map = EmptyMap
    /\ queue = <<>>
    /\ cancel = FALSE
    /\ signal = FALSE
    /\ tg = "Start"
    /\ cur = NoMsg
    /\ sel = "select1"
    /\ interrupts = 0
    /\ proc = "running"
    /\ conn = "up"
    /\ pending = <<>>
    /\ written = <<>>
    /\ enqueued = <<>>
    /\ sinkLog = <<>>
    /\ sinkFailed = FALSE
    /\ reads = 0
    /\ ticks = 0
    /\ lost = 0
    /\ probeFailed = FALSE
    /\ lastStep = "none"

----------------------------------------------------------------------------
(* The stream *)

\* results conn.write can give
WriteOutcomes == IF conn = "up" THEN {"ok"} ELSE {"err"}

\* SocketConn::write_data(cmd) with result o
write_data(cmd, o) ==
    /\ o \in WriteOutcomes
    /\ IF o = "ok"
       THEN /\ written' = Append(written, cmd)
            /\ pending' = Append(pending, cmd)
       ELSE UNCHANGED <<written, pending>>

\* chunks the server can have sent: the reply to the oldest unanswered
\* command, and, once events are registered, event lines
Offered(events) ==
    (IF pending /= <<>>
     THEN {[size |-> ShortSize, text |-> t, reply |-> TRUE] :
              t \in ReplyTexts(Head(pending))}
     ELSE {})
    \cup
    (IF events /\ reads < MaxReads
     THEN {[size |-> ShortSize, text |-> t, reply |-> FALSE] :
              t \in EventTexts}
          \cup {[size |-> BUFFER_SIZE, text |-> t, reply |-> FALSE] :
                   t \in FullTexts}
     ELSE {})

\* results of tokio::time::timeout(2 s, conn.read(&mut buffer)); a dead
\* stream reports an error or the end of the data (a read of 0 bytes)
ReadOutcomes(events) ==
    IF conn = "up"
    THEN {[t |-> "timeout"]}
         \cup {[t |-> "data", chunk |-> c] : c \in Offered(events)}
    ELSE {[t |-> "err"],
          [t |-> "data",
           chunk |-> [size |-> 0, text |-> <<>>, reply |-> FALSE]]}

\* the stream and the history after a timed read of read_data
AfterRead(o) ==
    /\ pending' = IF o.t = "data" /\ o.chunk.reply THEN Tail(pending) ELSE pending
    /\ reads' = IF o.t = "data" /\ o.chunk.text /= <<>> /\ ~o.chunk.reply
                THEN reads + 1 ELSE reads
    /\ lost' = IF o.t = "timeout" THEN lost + Len(ret) ELSE lost
    /\ UNCHANGED <<conn, written>>

\* the connection dies
ConnDies ==
    /\ proc = "running" /\ conn = "up"
    /\ conn' = "dead"
    /\ UNCHANGED <<ignore_list, obsVars, queue, enqueued, signal, ticks, tgVars,
                   coordVars, pending, written, reads, lost, probeFailed>>

----------------------------------------------------------------------------
(* The observer task, staff_thread (main.rs:123-235).  One action per      *)
(* stretch of code between two suspension points.                          *)

\* how staff_thread returns an error: the anyhow! of main.rs:135, 149, 165
\* and 186/206
ErrStates == {"ErrQueryClient", "ErrRegister", "ErrReadData", "ErrDeserialize"}

\* staff_thread has ended: returned Ok, returned an error, or panicked
Ended == {"Terminated", "Panicked"} \cup ErrStates

\* the receiver of the queue has been dropped: telegram_thread has returned
ReceiverClosed == tg \in {"Done", "Failed"}

\* query_clients: write "clientlist" (main.rs:132-135, socketlib.rs:93)
ListingWrite ==
    /\ proc = "running" /\ pc = "Listing"
    /\ \E o \in WriteOutcomes :
          /\ write_data("clientlist", o)
          /\ pc' = IF o = "ok" THEN "ListingRead" ELSE "ErrQueryClient"
    /\ ret' = <<>>
    /\ UNCHANGED <<ignore_list, data, client_map, lastStep, queue, enqueued,
                   coordVars, signal, ticks, tgVars, conn, reads, lost, probeFailed>>

\* query_clients: read the reply, decode it, seed the cache
\* (socketlib.rs:94-96, 108-112, main.rs:132-145)
ListingRead ==
    /\ proc = "running" /\ pc = "ListingRead"
    /\ \E o \in ReadOutcomes(FALSE) :
          LET r == ReadStep(ret, o)
              q == query_operation_non_error(r.ret)
          IN /\ AfterRead(o)
             /\ ret' = IF r.t = "more" THEN r.ret ELSE <<>>
             /\ pc' = CASE r.t = "more" -> pc
                        [] r.t \in {"none", "err"} -> "ErrQueryClient"
                        [] r.t = "some" /\ q.tag = "Ok" -> "Subscribing"
                        [] r.t = "some" /\ q.tag = "Err" -> "ErrQueryClient"
                        [] OTHER -> "Panicked"
             /\ client_map' = IF r.t = "some" /\ q.tag = "Ok"
                              THEN Seed(q.v, EmptyMap) ELSE client_map
    /\ UNCHANGED <<ignore_list, data, lastStep, queue, enqueued, coordVars,
                   signal, ticks, tgVars, probeFailed>>

\* register_events as a bare write_data: the command is written and the
\* loop is entered without reading or decoding the reply
SubscribingWriteNoReply ==
    /\ proc = "running" /\ pc = "Subscribing"
    /\ \E o \in WriteOutcomes :
          /\ write_data("servernotifyregister", o)
          /\ pc' = IF o = "ok" THEN "Polling" ELSE "ErrRegister"
    /\ ret' = <<>>
    /\ UNCHANGED <<ignore_list, data, client_map, lastStep, queue, enqueued,
                   coordVars, signal, ticks, tgVars, conn, reads, lost, probeFailed>>

\* register_events: write the command (main.rs:147, socketlib.rs:165)
SubscribingWrite ==
    /\ proc = "running" /\ pc = "Subscribing"
    /\ \E o \in WriteOutcomes :
          /\ write_data("servernotifyregister", o)
          /\ pc' = IF o = "ok" THEN "SubscribingRead" ELSE "ErrRegister"
    /\ ret' = <<>>
    /\ UNCHANGED <<ignore_list, data, client_map, lastStep, queue, enqueued,
                   coordVars, signal, ticks, tgVars, conn, reads, lost, probeFailed>>

\* register_events: read the reply and decode its status
\* (socketlib.rs:94-101, main.rs:147-149)
SubscribingRead ==
    /\ proc = "running" /\ pc = "SubscribingRead"
    /\ \E o \in ReadOutcomes(FALSE) :
          LET r == ReadStep(ret, o)
              q == decode_status(r.ret)
          IN /\ AfterRead(o)
             /\ ret' = IF r.t = "more" THEN r.ret ELSE <<>>
             /\ pc' = CASE r.t = "more" -> pc
                        [] r.t \in {"none", "err"} -> "ErrRegister"
                        [] r.t = "some" /\ q.tag = "Ok" -> "Polling"
                        [] r.t = "some" /\ q.tag = "Err" -> "ErrRegister"
                        [] OTHER -> "Panicked"
    /\ UNCHANGED <<ignore_list, data, client_map, lastStep, queue, enqueued,
                   coordVars, signal, ticks, tgVars, probeFailed>>

\* the top of the loop without the test of the watch channel
CheckCancelBlind ==
    /\ proc = "running" /\ pc = "Polling"
    /\ pc' = "PollRead"
    /\ ret' = <<>>
    /\ UNCHANGED <<ignore_list, data, client_map, lastStep, queue, enqueued,
                   coordVars, signal, ticks, tgVars, sessVars, probeFailed>>

\* the top of the loop: recv.has_changed() (main.rs:153-162)
CheckCancel ==
    /\ proc = "running" /\ pc = "Polling"
    /\ pc' = IF cancel THEN "Draining" ELSE "PollRead"
    /\ ret' = <<>>
    /\ UNCHANGED <<ignore_list, data, client_map, lastStep, queue, enqueued,
                   coordVars, signal, ticks, tgVars, sessVars, probeFailed>>

\* conn.read_data() of the loop (main.rs:162-165, 180-182)
PollRead ==
    /\ proc = "running" /\ pc = "PollRead"
    /\ \E o \in ReadOutcomes(TRUE) :
          LET r == ReadStep(ret, o)
          IN /\ AfterRead(o)
             /\ ret' = IF r.t = "more" THEN r.ret ELSE <<>>
             /\ pc' = CASE r.t = "more" -> pc
                        [] r.t = "err" -> "ErrReadData"
                        [] r.t = "none" -> "Keepalive"
                        [] OTHER -> "Classify"
             /\ data' = IF r.t = "some" THEN Lines(r.ret) ELSE data
    /\ UNCHANGED <<ignore_list, client_map, lastStep, queue, enqueued,
                   coordVars, signal, ticks, tgVars, probeFailed>>

\* the keepalive probe without `*signal = false`
KeepaliveNoClear ==
    /\ proc = "running" /\ pc = "Keepalive"
    /\ IF signal
       THEN \E o \in WriteOutcomes :
               /\ write_data("whoami", o)
               /\ probeFailed' = (probeFailed \/ o = "err")
       ELSE UNCHANGED <<written, pending, probeFailed>>
    /\ pc' = "Polling"
    /\ UNCHANGED <<ignore_list, ret, data, client_map, lastStep, queue,
                   enqueued, coordVars, signal, ticks, tgVars, conn, reads,
                   lost>>

\* data.is_none(): the keepalive probe (main.rs:167-179)
Keepalive ==
    /\ proc = "running" /\ pc = "Keepalive"
    /\ IF signal
       THEN \E o \in WriteOutcomes :
               /\ write_data("whoami", o)
               /\ probeFailed' = (probeFailed \/ o = "err")
       ELSE UNCHANGED <<written, pending, probeFailed>>
    /\ signal' = FALSE
    /\ pc' = "Polling"
    /\ UNCHANGED <<ignore_list, ret, data, client_map, lastStep, queue,
                   enqueued, coordVars, ticks, tgVars, conn, reads, lost>>

\* one line of the frame (main.rs:182-226); sender.send waits while the
\* queue is full and fails, unnoticed, once the receiver is gone
Classify ==
    /\ proc = "running" /\ pc = "Classify"
    /\ LET res == ClassifyLine(Head(data), client_map, ignore_list)
           sends == res.tag = "Ok" /\ res.emit /= <<>> /\ ~ReceiverClosed
       IN /\ sends => Len(queue) < QueueCap
          /\ pc' = IF res.tag = "Err" THEN "ErrDeserialize"
                   ELSE IF Tail(data) = <<>> THEN "Sleep" ELSE "Classify"
          /\ data' = IF res.tag = "Err" THEN <<>> ELSE Tail(data)
          /\ client_map' = res.map
          /\ queue' = IF sends THEN Append(queue, res.emit[1]) ELSE queue
          /\ enqueued' = IF sends THEN Append(enqueued, res.emit[1])
                         ELSE enqueued
          /\ lastStep' = res.kind
    /\ UNCHANGED <<ignore_list, ret, coordVars, signal, ticks, tgVars,
                   sessVars, probeFailed>>

\* sleep(interval) (main.rs:227)
Sleep ==
    /\ proc = "running" /\ pc = "Sleep"
    /\ pc' = "Polling"
    /\ UNCHANGED <<ignore_list, ret, data, client_map, lastStep, queue,
                   enqueued, coordVars, signal, ticks, tgVars, sessVars, probeFailed>>

\* the logout without the break after it: the loop goes on to read_data
LogoutNoBreak ==
    /\ proc = "running" /\ pc = "Draining"
    /\ \E o \in WriteOutcomes : write_data("quit", o)
    /\ pc' = "PollRead"
    /\ UNCHANGED <<ignore_list, ret, data, client_map, lastStep, queue,
                   enqueued, coordVars, signal, ticks, tgVars, conn, reads,
                   lost, probeFailed>>

\* conn.logout().await.ok(); break (main.rs:159-160)
Logout ==
    /\ proc = "running" /\ pc = "Draining"
    /\ \E o \in WriteOutcomes : write_data("quit", o)
    /\ pc' = "SendTerminate"
    /\ UNCHANGED <<ignore_list, ret, data, client_map, lastStep, queue,
                   enqueued, coordVars, signal, ticks, tgVars, conn, reads,
                   lost, probeFailed>>

\* sender.send(TelegramData::Terminate) and return Ok (main.rs:229-234)
SendTerminate ==
    /\ proc = "running" /\ pc = "SendTerminate"
    /\ ~ReceiverClosed => Len(queue) < QueueCap
    /\ queue' = IF ReceiverClosed THEN queue ELSE Append(queue, Terminate)
    /\ enqueued' = IF ReceiverClosed THEN enqueued
                   ELSE Append(enqueued, Terminate)
    /\ pc' = "Terminated"
    /\ UNCHANGED <<ignore_list, ret, data, client_map, lastStep, coordVars,
                   signal, ticks, tgVars, sessVars, probeFailed>>

----------------------------------------------------------------------------
(* The notifier task, telegram_thread (main.rs:92-121) *)

\* the sender of the queue has been dropped: staff_thread has ended
SenderDropped == pc \in Ended

\* token.is_empty(): the loop that only waits for Terminate (main.rs:98-106)
TgStartDrain ==
    /\ proc = "running" /\ tg = "Start"
    /\ tg' = "Drain"
    /\ UNCHANGED <<ignore_list, obsVars, queue, enqueued, coordVars, signal,
                   ticks, cur, sinkLog, sinkFailed, sessVars,
                   probeFailed>>

\* Bot::new(token).set_api_url(server.parse()?) (main.rs:107-109)
TgStartBot ==
    /\ proc = "running" /\ tg = "Start"
    /\ \E parsed \in BOOLEAN : tg' = IF parsed THEN "Recv" ELSE "Failed"
    /\ UNCHANGED <<ignore_list, obsVars, queue, enqueued, coordVars, signal,
                   ticks, cur, sinkLog, sinkFailed, sessVars,
                   probeFailed>>

\* receiver.recv() of the loop without a bot (main.rs:100-104)
TgDrainRecv ==
    /\ proc = "running" /\ tg = "Drain" /\ queue /= <<>>
    /\ queue' = Tail(queue)
    /\ tg' = IF Head(queue) = Terminate THEN "Done" ELSE "Drain"
    /\ UNCHANGED <<ignore_list, obsVars, enqueued, coordVars, signal, ticks,
                   cur, sinkLog, sinkFailed, sessVars, probeFailed>>

\* receiver.recv() and cmd.to_string() without the Terminate test before
\* them: every message dequeued is formatted and sent
TgRecvNoBreak ==
    /\ proc = "running" /\ tg = "Recv" /\ queue /= <<>>
    /\ queue' = Tail(queue)
    /\ tg' = "Sending"
    /\ cur' = Head(queue)
    /\ UNCHANGED <<ignore_list, obsVars, enqueued, coordVars, signal, ticks,
                   sinkLog, sinkFailed, sessVars, probeFailed>>

\* receiver.recv(), the Terminate test and cmd.to_string() (main.rs:110-114)
TgRecv ==
    /\ proc = "running" /\ tg = "Recv" /\ queue /= <<>>
    /\ queue' = Tail(queue)
    /\ tg' = IF Head(queue) = Terminate THEN "Done" ELSE "Sending"
    /\ cur' = IF Head(queue) = Terminate THEN cur ELSE Head(queue)
    /\ UNCHANGED <<ignore_list, obsVars, enqueued, coordVars, signal, ticks,
                   sinkLog, sinkFailed, sessVars, probeFailed>>

\* receiver.recv() returns None: the queue is empty and the sender is gone
TgRecvNone ==
    /\ proc = "running" /\ tg \in {"Drain", "Recv"}
    /\ queue = <<>> /\ SenderDropped
    /\ tg' = "Done"
    /\ UNCHANGED <<ignore_list, obsVars, queue, enqueued, coordVars, signal,
                   ticks, cur, sinkLog, sinkFailed, sessVars,
                   probeFailed>>

\* a send whose error is returned (payload.send().await?): the task ends
TgSendFatal ==
    /\ proc = "running" /\ tg = "Sending"
    /\ sinkLog' = Append(sinkLog, cur)
    /\ \E sent \in BOOLEAN :
          /\ sinkFailed' = (sinkFailed \/ ~sent)
          /\ tg' = IF sent THEN "Recv" ELSE "Failed"
    /\ cur' = NoMsg
    /\ UNCHANGED <<ignore_list, obsVars, queue, enqueued, coordVars, signal,
                   ticks, sessVars, probeFailed>>

\* a send that is tried again when it fails: the message stays in hand
TgSendRetry ==
    /\ proc = "running" /\ tg = "Sending"
    /\ sinkLog' = Append(sinkLog, cur)
    /\ \E sent \in BOOLEAN :
          /\ sinkFailed' = (sinkFailed \/ ~sent)
          /\ cur' = IF sent THEN NoMsg ELSE cur
          /\ tg' = IF sent THEN "Recv" ELSE "Sending"
    /\ UNCHANGED <<ignore_list, obsVars, queue, enqueued, coordVars, signal,
                   ticks, sessVars, probeFailed>>

\* payload.send().await; an error is logged (main.rs:115-117)
TgSend ==
    /\ proc = "running" /\ tg = "Sending"
    /\ sinkLog' = Append(sinkLog, cur)
    /\ \E sent \in BOOLEAN : sinkFailed' = (sinkFailed \/ ~sent)
    /\ cur' = NoMsg
    /\ tg' = "Recv"
    /\ UNCHANGED <<ignore_list, obsVars, queue, enqueued, coordVars, signal,
                   ticks, sessVars, probeFailed>>

----------------------------------------------------------------------------
(* The shutdown coordinator and the watchdog, observer() (main.rs:259-292) *)

\* the first ctrl_c of the first select!: exit_sender.send(true)
\* (main.rs:261-263)
Interrupt1 ==
    /\ proc = "running" /\ sel = "select1" /\ interrupts = 0
    /\ ~SenderDropped
    /\ cancel' = TRUE
    /\ interrupts' = 1
    /\ UNCHANGED <<ignore_list, obsVars, queue, enqueued, sel, proc, signal,
                   ticks, tgVars, sessVars, probeFailed>>

\* the same once staff_thread has ended and dropped the watch receiver:
\* send fails and unwrap panics
Interrupt1Closed ==
    /\ proc = "running" /\ sel = "select1" /\ interrupts = 0
    /\ SenderDropped
    /\ proc' = "panic"
    /\ UNCHANGED <<ignore_list, obsVars, queue, enqueued, cancel, sel,
                   interrupts, signal, ticks, tgVars, sessVars, probeFailed>>

\* the second ctrl_c of the first select! (main.rs:264-266)
Interrupt2 ==
    /\ proc = "running" /\ sel = "select1" /\ interrupts = 1
    /\ proc' = "exit137"
    /\ interrupts' = 2
    /\ UNCHANGED <<ignore_list, obsVars, queue, enqueued, cancel, sel, signal, ticks, tgVars, sessVars,
                   probeFailed>>

\* the second ctrl_c is delivered when staff_handler is ready too, and the
\* first select! (unbiased: the branch polled first is picked at random)
\* completes on staff_handler: its ctrl_c branch is dropped with the
\* interrupt, and the ctrl_c of the second select! only sees later ones
\* (main.rs:259-282)
Interrupt2Lost ==
    /\ proc = "running" /\ sel = "select1" /\ interrupts = 1
    /\ SenderDropped
    /\ interrupts' = 2
    /\ IF pc = "Terminated"
       THEN sel' = "select2" /\ proc' = proc
       ELSE sel' = sel /\ proc' = "exitErr"
    /\ UNCHANGED <<ignore_list, obsVars, queue, enqueued, cancel, signal,
                   ticks, tgVars, sessVars, probeFailed>>

\* the watchdog branch: every 30 s, *i = true (main.rs:269-275)
WatchdogTick ==
    /\ proc = "running" /\ sel = "select1" /\ ticks < MaxTicks
    /\ signal' = TRUE
    /\ ticks' = ticks + 1
    /\ UNCHANGED <<ignore_list, obsVars, queue, enqueued, coordVars, tgVars,
                   sessVars, probeFailed>>

\* ret = staff_handler => ret?? (main.rs:276-278)
StaffJoined ==
    /\ proc = "running" /\ sel = "select1" /\ SenderDropped
    /\ IF pc = "Terminated"
       THEN sel' = "select2" /\ proc' = proc
       ELSE sel' = sel /\ proc' = "exitErr"
    /\ UNCHANGED <<ignore_list, obsVars, queue, enqueued, cancel, interrupts, signal, ticks, tgVars, sessVars,
                   probeFailed>>

\* ctrl_c of the second select! (main.rs:281-285)
Interrupt3 ==
    /\ proc = "running" /\ sel = "select2"
    /\ proc' = "exit137"
    /\ interrupts' = interrupts + 1
    /\ UNCHANGED <<ignore_list, obsVars, queue, enqueued, cancel, sel, signal, ticks, tgVars, sessVars,
                   probeFailed>>

\* ret = telegram_handler => ret?? and Ok(()) (main.rs:288-292)
TgJoined ==
    /\ proc = "running" /\ sel = "select2" /\ ReceiverClosed
    /\ proc' = IF tg = "Done" THEN "exit0" ELSE "exitErr"
    /\ UNCHANGED <<ignore_list, obsVars, queue, enqueued, cancel, sel,
                   interrupts, signal, ticks, tgVars, sessVars, probeFailed>>

----------------------------------------------------------------------------

Next ==
    \/ ListingWrite \/ ListingRead \/ SubscribingWrite \/ SubscribingRead
    \/ CheckCancel \/ PollRead \/ Keepalive \/ Classify \/ Sleep
    \/ Logout \/ SendTerminate
    \/ TgStartDrain \/ TgStartBot \/ TgDrainRecv \/ TgRecv \/ TgRecvNone
    \/ TgSend
    \/ Interrupt1 \/ Interrupt1Closed \/ Interrupt2 \/ Interrupt2Lost
    \/ WatchdogTick
    \/ StaffJoined \/ Interrupt3 \/ TgJoined
    \/ ConnDies

Spec == Init /\ [][Next]_vars

\* the steps of staff_thread and of telegram_thread
StaffNext ==
    \/ ListingWrite \/ ListingRead \/ SubscribingWrite \/ SubscribingRead
    \/ CheckCancel \/ PollRead \/ Keepalive \/ Classify \/ Sleep
    \/ Logout \/ SendTerminate

TgNext ==
    \/ TgStartDrain \/ TgStartBot \/ TgDrainRecv \/ TgRecv \/ TgRecvNone
    \/ TgSend

\* the program with at most one interrupt
LiveNext ==
    \/ ListingWrite \/ ListingRead \/ SubscribingWrite \/ SubscribingRead
    \/ CheckCancel \/ PollRead \/ Keepalive \/ Classify \/ Sleep
    \/ Logout \/ SendTerminate
    \/ TgStartDrain \/ TgStartBot \/ TgDrainRecv \/ TgRecv \/ TgRecvNone
    \/ TgSend
    \/ Interrupt1 \/ Interrupt1Closed \/ WatchdogTick
    \/ StaffJoined \/ TgJoined
    \/ ConnDies

\* the tokio runtime polls a task that can make progress: each of the two
\* spawned tasks and the select! of observer() takes its step when it stays
\* enabled
FairSpec ==
    /\ Init /\ [][LiveNext]_vars
    /\ WF_vars(StaffNext) /\ WF_vars(TgNext)
    /\ WF_vars(StaffJoined) /\ WF_vars(TgJoined)

----------------------------------------------------------------------------
(* The decoders on their own: the response text read_data has returned is  *)
(* drawn from every text of up to MaxLines lines, and the step that        *)
(* follows the read in query_clients and in register_events decodes it.    *)

\* what a line of a response can hold
LineContents ==
    {StatusTok(0), StatusTok(1), OtherTok,
     RecordsTok(<<ClientRec(1, 0, "alice"), ClientRec(2, 1, "query")>>)}

\* how a line can end: "\n\r" (the protocol's terminator), "\r\n", "\n"
Terminators == {<<LF, CR>>, <<CR, LF>>, <<LF>>}

RECURSIVE TerminatedTexts(_)
\* the texts of at most n lines, each with its terminator
TerminatedTexts(n) ==
    IF n = 0 THEN {<<>>}
    ELSE TerminatedTexts(n - 1)
         \cup {p \o <<c>> \o t : p \in TerminatedTexts(n - 1) \ {<<>>},
                                  c \in LineContents, t \in Terminators}
         \cup {<<c>> \o t : c \in LineContents, t \in Terminators}

\* the non-empty texts of at most MaxLines lines; the last line may lack
\* its terminator (the read ended before it)
ResponseTexts ==
    (TerminatedTexts(MaxLines)
     \cup {p \o <<c>> : p \in TerminatedTexts(MaxLines - 1),
                        c \in LineContents})
    \ {<<>>}

\* the client records handed to Client::from_query
ClientTexts ==
    {<<ClientTok(c, 1, db, t, u, n)>> :
        c \in {1, 8}, db \in {1, 2}, t \in {0, 1},
        u \in {"serveradmin", "1"}, n \in {"serveradmin", "alice"}}

\* write_and_read has returned the text `ret` of the reply to clientlist or
\* to servernotifyregister (socketlib.rs:100, 108), or one element of the
\* result line is about to be decoded (socketlib.rs:41-42)
DecodeInit ==
    /\ ignore_list = {}
    /\ pc \in {"ListingDecode", "SubscribingDecode", "ClientDecode"}
    /\ ret \in IF pc = "ClientDecode" THEN ClientTexts ELSE ResponseTexts
    /\ data = <<>>
    /\ client_map = EmptyMap
    /\ queue = <<>>
    /\ cancel = FALSE
    /\ signal = FALSE
    /\ tg = "Start"
    /\ cur = NoMsg
    /\ sel = "select1"
    /\ interrupts = 0
    /\ proc = "running"
    /\ conn = "up"
    /\ pending = <<>>
    /\ written = IF pc = "SubscribingDecode"
                 THEN <<"clientlist", "servernotifyregister">>
                 ELSE <<"clientlist">>
    /\ enqueued = <<>>
    /\ sinkLog = <<>>
    /\ sinkFailed = FALSE
    /\ reads = 0
    /\ ticks = 0
    /\ lost = 0
    /\ probeFailed = FALSE
    /\ lastStep = "none"

\* how a result of decode_status_with_result reads
ResultKind(r) ==
    IF r.tag /= "Ok" THEN r.tag
    ELSE IF r.value.some THEN "Some" ELSE "None"

\* query_operation_non_error after its read: decode_status_with_result, the
\* panic! on None, and the seeding loop (socketlib.rs:109-112,
\* main.rs:132-145)
QueryClientsDecode ==
    /\ proc = "running" /\ pc = "ListingDecode"
    /\ LET q == query_operation_non_error(ret)
       IN /\ pc' = CASE q.tag = "Ok" -> "Subscribing"
                      [] q.tag = "Err" -> "ErrQueryClient"
                      [] OTHER -> "Panicked"
          /\ client_map' = IF q.tag = "Ok" THEN Seed(q.v, EmptyMap)
                           ELSE client_map
    /\ lastStep' = ResultKind(decode_status_with_result(ret))
    /\ UNCHANGED <<ignore_list, ret, data, queue, enqueued, coordVars, signal,
                   ticks, tgVars, sessVars, probeFailed>>

\* basic_operation after its read: decode_status (socketlib.rs:101,
\* main.rs:147-149)
RegisterEventsDecode ==
    /\ proc = "running" /\ pc = "SubscribingDecode"
    /\ pc' = CASE decode_status(ret).tag = "Ok" -> "Polling"
                [] decode_status(ret).tag = "Err" -> "ErrRegister"
                [] OTHER -> "Panicked"
    /\ lastStep' = decode_status(ret).tag
    /\ UNCHANGED <<ignore_list, ret, data, client_map, queue, enqueued,
                   coordVars, signal, ticks, tgVars, sessVars, probeFailed>>

\* one element of the client list: Client::from_query and the body of the
\* seeding loop, which reads the record through its accessors
\* (socketlib.rs:42, main.rs:137-144)
ClientDecode ==
    /\ proc = "running" /\ pc = "ClientDecode"
    /\ LET client == ClientFromQuery(ret[1])
       IN client_map' =
             IF client_id(client) \in DOMAIN client_map
                \/ client_type(client) = 1
             THEN client_map
             ELSE Insert(client_map, client_id(client),
                         [nick |-> client_nickname(client), ignored |-> FALSE])
    /\ pc' = "ClientDecoded"
    /\ UNCHANGED <<ignore_list, ret, data, lastStep, queue, enqueued,
                   coordVars, signal, ticks, tgVars, sessVars, probeFailed>>

DecodeNext == QueryClientsDecode \/ RegisterEventsDecode \/ ClientDecode

DecodeSpec == DecodeInit /\ [][DecodeNext]_vars

----------------------------------------------------------------------------
(* Properties *)

Range(q) == {q[i] : i \in 1..Len(q)}

\* a step of staff_thread that classifies the line Head(data)
ClassifyStep == pc = "Classify" /\ data' /= data

\* the line decodes to an enter event / to a left event
IsEnterLine(l) == StartsWith(l, "enter") /\ FromQueryEnter(l).tag = "Ok"
IsLeftLine(l) == StartsWith(l, "left") /\ FromQueryLeft(l).tag = "Ok"

\* staff_thread has seen the cancellation signal at the top of the loop
SignalSeen == pc \in {"Draining", "SendTerminate", "Terminated"}

\* C1: whenever the cancellation signal has been set and staff_thread has
\* then left its loop and ended (returning Ok or a steady-state error), it
\* has enqueued exactly one Terminate, and Terminate is the last message it
\* enqueued.
C1_ExactlyOneTerminateLast ==
    (cancel /\ pc \in {"Terminated", "ErrReadData", "ErrDeserialize"}) =>
        /\ enqueued /= <<>>
        /\ Last(enqueued) = Terminate
        /\ Cardinality({i \in 1..Len(enqueued) : enqueued[i] = Terminate}) = 1

\* C2 (as claimed): a command written while the cancellation signal is set
\* is the logout, and it is the first logout written.
C2_NoCommandAfterSignalSet ==
    [][(cancel /\ written' /= written) =>
          (Last(written') = "quit" /\ "quit" \notin Range(written))]_vars

\* C2 (amended): once staff_thread has seen the cancellation signal at the
\* top of its loop, the only command it writes is the logout of the
\* Draining state, once.
C2_NoCommandAfterSignalSeen ==
    [][(SignalSeen /\ written' /= written) =>
          (pc = "Draining" /\ Last(written') = "quit"
           /\ "quit" \notin Range(written))]_vars

\* C2 witness: staff_thread saw the signal and its logout was written
C2_Witness ==
    /\ cancel /\ pc = "SendTerminate"
    /\ written /= <<>> /\ Last(written) = "quit"

\* C3: when staff_thread has ended with a steady-state error (read_data
\* failed, or an event line did not decode), Terminate has been enqueued.
C3_FailureStillDrains ==
    pc \in {"ErrReadData", "ErrDeserialize"} => Terminate \in Range(enqueued)

\* C4: no byte read from the stream by read_data is dropped: every byte
\* read is part of a frame read_data returns.
C4_NoBytesLost == lost = 0

\* C5: a command is written to the stream only when every command written
\* before it has had its reply read.
C5_SingleFlight == [][written' /= written => pending = <<>>]_vars

\* C6: once a keepalive write has failed, staff_thread has left the poll
\* loop with an error.
C6_FailedProbeIsFatal == probeFailed => pc \in ErrStates

\* C7: no Enter notification is enqueued for a client whose nickname is an
\* entry of the ignore list.
C7_IgnoredNicknameNeverNotified ==
    \A i \in 1..Len(enqueued) :
        enqueued[i].type = "Enter" => enqueued[i].nick \notin ignore_list

\* the nicknames of the ServerQuery clients among the events
ServerQueryNicks == {e.nick : e \in {x \in EnterEvents : x.uid = "ServerQuery"}}

\* C8: the step that classifies an enter event whose unique identifier is
\* "ServerQuery" enqueues nothing and leaves the client in the cache, marked
\* ignored; no Enter with that identifier and no Left with such a client's
\* nickname is ever enqueued, whatever the ignore list.
C8_ServerQueryNeverNotified ==
    /\ [](\A i \in 1..Len(enqueued) :
            /\ enqueued[i].type = "Enter" => enqueued[i].uid /= "ServerQuery"
            /\ enqueued[i].type = "Left" =>
                  enqueued[i].nick \notin ServerQueryNicks)
    /\ [][(/\ ClassifyStep
           /\ IsEnterLine(Head(data))
           /\ FromQueryEnter(Head(data)).view.uid = "ServerQuery") =>
             (/\ enqueued' = enqueued
              /\ queue' = queue
              /\ pc' \in {"Classify", "Sleep"}
              /\ FromQueryEnter(Head(data)).view.clid \in DOMAIN client_map'
              /\ client_map'[FromQueryEnter(Head(data)).view.clid] =
                    [nick |-> FromQueryEnter(Head(data)).view.nick,
                     ignored |-> TRUE])]_vars

\* C8 witness: with an empty ignore list, a ServerQuery enter event has just
\* been classified and its client is in the cache, marked ignored
C8_Witness ==
    /\ ignore_list = {}
    /\ lastStep = "enter_ignored"
    /\ \E c \in DOMAIN client_map :
          client_map[c].ignored /\ client_map[c].nick \in ServerQueryNicks

\* C9: the step that classifies a left event whose client id is in the
\* cache removes that client id from the cache.
C9_LeftRemovesEntry ==
    [][(/\ ClassifyStep
        /\ IsLeftLine(Head(data))
        /\ FromQueryLeft(Head(data)).view.clid \in DOMAIN client_map) =>
          FromQueryLeft(Head(data)).view.clid \notin DOMAIN client_map']_vars

\* C10: the step that classifies a left event whose client id is not in
\* the cache changes neither the cache nor the queue, and staff_thread goes
\* on with the next line of the frame (or, after the last line, with the
\* sleep before the next frame).
C10_UnknownLeftSkipped ==
    [][(/\ ClassifyStep
        /\ IsLeftLine(Head(data))
        /\ FromQueryLeft(Head(data)).view.clid \notin DOMAIN client_map) =>
          (/\ client_map' = client_map
           /\ queue' = queue
           /\ enqueued' = enqueued
           /\ data' = Tail(data)
           /\ pc' = IF Tail(data) = <<>> THEN "Sleep" ELSE "Classify")]_vars

\* C10 witness: a left event for an unknown client has just been skipped
\* and the next line of the same frame is about to be classified
C10_Witness ==
    /\ lastStep = "left_unknown"
    /\ pc = "Classify"
    /\ data /= <<>>

Max(S) == CHOOSE x \in S : \A y \in S : x >= y

\* positions before j of the messages about the client of message j
EarlierAbout(j) ==
    {i \in 1..(j - 1) : /\ enqueued[i].type \in {"Enter", "Left"}
                        /\ enqueued[i].clid = enqueued[j].clid}

\* C11: the step that classifies an enter event writes the client's cache
\* entry and, when it notifies, enqueues the Enter in that same step, before
\* the next line of the frame is looked at; a Left is enqueued only for a
\* client whose entry is in the cache; and in the queue's history a Left of
\* a client that has had an earlier message is preceded, as the latest
\* message about that client, by the Enter of its enter event (same
\* nickname), never by another Left.
C11_EnterBeforeLeft ==
    /\ [](\A j \in 1..Len(enqueued) :
            (enqueued[j].type = "Left" /\ EarlierAbout(j) /= {}) =>
                /\ enqueued[Max(EarlierAbout(j))].type = "Enter"
                /\ enqueued[Max(EarlierAbout(j))].nick = enqueued[j].nick)
    /\ [][(ClassifyStep /\ IsEnterLine(Head(data))) =>
            (/\ FromQueryEnter(Head(data)).view.clid \in DOMAIN client_map'
             /\ client_map'[FromQueryEnter(Head(data)).view.clid].nick =
                   FromQueryEnter(Head(data)).view.nick
             /\ (~client_map'[FromQueryEnter(Head(data)).view.clid].ignored
                 /\ ~ReceiverClosed) =>
                   enqueued' =
                      Append(enqueued, from_enter(FromQueryEnter(Head(data)).view))
             /\ data' = Tail(data))]_vars
    /\ [][(Len(enqueued') > Len(enqueued) /\ Last(enqueued').type = "Left") =>
            (/\ Last(enqueued').clid \in DOMAIN client_map
             /\ ~client_map[Last(enqueued').clid].ignored
             /\ client_map[Last(enqueued').clid].nick = Last(enqueued').nick)]_vars

\* C11 witness: the Enter of a client and, later, the Left of the same
\* client are in the queue's history
C11_Witness ==
    \E i, j \in 1..Len(enqueued) :
        /\ i < j
        /\ enqueued[i].type = "Enter" /\ enqueued[j].type = "Left"
        /\ enqueued[i].clid = enqueued[j].clid

\* the message is a notification, not the sentinel
IsNotification(m) == m.type /= "Terminate"

IsPrefix(s, t) == Len(s) <= Len(t) /\ s = SubSeq(t, 1, Len(s))

\* the message telegram_thread holds between recv and the end of its send
InHand == IF tg = "Sending" THEN <<cur>> ELSE <<>>

C13_SinkFailureNotFatal ==
    /\ [](sinkFailed => tg \in {"Recv", "Sending", "Done"})
    /\ [][(tg = "Sending" /\ tg' /= tg) =>
            (tg' = "Recv" /\ sinkLog' = Append(sinkLog, cur))]_vars
    /\ [][(sinkFailed /\ tg = "Recv" /\ Len(queue') < Len(queue)) =>
            (/\ queue' = Tail(queue)
             /\ IF Head(queue) = Terminate
                THEN tg' = "Done"
                ELSE tg' = "Sending" /\ cur' = Head(queue))]_vars

\* C13 witness: after a failed send the task has dequeued a later
\* notification and is about to hand it to the sink
C13_Witness == sinkFailed /\ tg = "Sending" /\ sinkLog /= <<>>

\* C14: an interrupt that arrives after the first one, while the process
\* runs, staff_thread has not failed, and staff_thread or telegram_thread
\* has not ended, ends the process in that step with exit code 137; and a
\* process that has ended after one interrupt only, both tasks having
\* returned Ok, has exited with code 0.
C14_SecondInterruptForcesExit ==
    /\ [][(/\ proc = "running"
           /\ interrupts >= 1 /\ interrupts' > interrupts
           /\ pc \notin (Ended \ {"Terminated"})
           /\ (pc \notin Ended \/ ~ReceiverClosed)) =>
             proc' = "exit137"]_vars
    /\ []((proc /= "running" /\ interrupts = 1
           /\ pc = "Terminated" /\ tg = "Done") => proc = "exit0")

\* staff_thread is in its poll loop or in the shutdown sequence after it
InPollLoop ==
    pc \in {"Polling", "PollRead", "Keepalive", "Classify", "Sleep",
            "Draining", "SendTerminate"}

\* C15: under fair scheduling of the tasks and with a single interrupt, once
\* the cancellation signal is set while staff_thread is in its poll loop
\* (inside a timed read, classifying against a full queue, or sleeping),
\* staff_thread eventually returns Ok after its Terminate send, unless an
\* error of the stream ends it first; Terminate has then been enqueued
\* unless telegram_thread had already failed; and from there telegram_thread
\* eventually ends and observer() eventually returns.
C15_ShutdownCompletes ==
    /\ (cancel /\ InPollLoop)
          ~> (pc = "Terminated" \/ pc \in {"ErrReadData", "ErrDeserialize"})
    /\ [](pc = "Terminated" =>
             (tg = "Failed" \/ Terminate \in Range(enqueued)))
    /\ (pc = "Terminated") ~> (tg \in {"Done", "Failed"})
    /\ (pc = "Terminated") ~> (proc \in {"exit0", "exitErr"})

\* C15 witness: the signal was set, notifications and then Terminate went
\* through the queue, both tasks ended and the process exited with code 0
C15_Witness ==
    /\ cancel /\ pc = "Terminated" /\ tg = "Done" /\ proc = "exit0"
    /\ Len(enqueued) >= 2 /\ Last(enqueued) = Terminate

\* the decode step of query_clients / of register_events has been taken
ListDecoded ==
    /\ Last(written) = "clientlist"
    /\ pc \in {"Subscribing", "ErrQueryClient", "Panicked"}
StatusDecoded ==
    /\ Last(written) = "servernotifyregister"
    /\ pc \in {"Polling", "ErrRegister", "Panicked"}

\* the text holds status lines and line terminators only, and its first
\* status line reports success
SuccessStatusOnly(text) ==
    /\ \A i \in 1..Len(text) : text[i].kind \in {"status", "LF", "CR"}
    /\ \E i \in 1..Len(text) :
          /\ text[i] = StatusTok(0)
          /\ \A j \in 1..(i - 1) : text[j].kind /= "status"

\* C16: query_clients on a response that has a success status line and no
\* result line returns an error to staff_thread (which returns
\* "QueryClient failure"): it neither yields a list nor panics.
C16_NoResultLineIsError ==
    (ListDecoded /\ SuccessStatusOnly(ret)) => pc = "ErrQueryClient"

\* C17: decode_status on a response text with no status line returns an
\* error value to its caller (register_events then fails and staff_thread
\* returns the error); it never panics.
C17_NoStatusLineIsDecodeError ==
    (StatusDecoded /\ ~ContainsStatus(ret)) =>
        (lastStep = "Err" /\ pc = "ErrRegister")

\* the response a command without records gets on success: the status line
\* and the protocol's terminator
EmptySuccess == Line(StatusTok(0))

\* C18: decode_status_with_result on a success status line with zero record
\* lines, terminated "\n\r", returns Ok(None).
C18_EmptySuccessIsNone ==
    (ListDecoded /\ ret = EmptySuccess) => lastStep = "None"

\* C19: for a client record decoded from a query string, every accessor
\* returns the input's field of the same name; client_unique_identifier()
\* returns the input's client_unique_identifier.
C19_AccessorsReturnInputFields ==
    pc = "ClientDecoded" =>
        LET q == ret[1]
            client == ClientFromQuery(q)
        IN /\ client_id(client) = q.clid
           /\ channel_id(client) = q.cid
           /\ client_database_id(client) = q.client_database_id
           /\ client_type(client) = q.client_type
           /\ client_nickname(client) = q.client_nickname
           /\ client_unique_identifier(client) = q.client_unique_identifier

\* C20: the message telegram_thread formats and hands to the sink is an
\* Enter or a Left: the formatter's unreachable branch is never taken, for
\* the message in hand and for every message handed over so far.
C20_TerminateNeverFormatted ==
    /\ tg = "Sending" =>
          (cur.type \in {"Enter", "Left"}
           /\ to_string(cur) /= <<"unreachable_unchecked">>)
    /\ \A i \in 1..Len(sinkLog) :
          to_string(sinkLog[i]) /= <<"unreachable_unchecked">>

\* C20 witness: telegram_thread has handed a notification to the sink and
\* has then dequeued Terminate and stopped
C20_Witness ==
    /\ tg = "Done" /\ sinkLog /= <<>>
    /\ enqueued /= <<>> /\ Last(enqueued) = Terminate /\ queue = <<>>

\* the keepalive probes written so far
Probes == {i \in 1..Len(written) : written[i] = "whoami"}

\* C21: a probe is written (or its write attempted) only by the step that
\* follows a read_data that returned None, with the liveness flag set, and
\* that step leaves the flag false; the step after a None read always
\* leaves the flag false; that step is entered only from a read that
\* returned no frame; and the probes written never outnumber the settings
\* of the flag by the watchdog.
C21_ProbeOnlyOnIdleAndFlag ==
    /\ [][((Len(written') > Len(written) /\ Last(written') = "whoami")
           \/ probeFailed' /= probeFailed) =>
             (pc = "Keepalive" /\ signal /\ ~signal')]_vars
    /\ [][(pc = "Keepalive" /\ pc' /= pc) =>
             (~signal' /\ (~signal => written' = written))]_vars
    /\ [][(pc' = "Keepalive" /\ pc /= "Keepalive") =>
             (pc = "PollRead" /\ data' = data /\ written' = written)]_vars
    /\ [](Cardinality(Probes) <= ticks)

\* C21 witness: the watchdog set the flag, a read returned None, the probe
\* was written and the flag is clear again
C21_Witness ==
    /\ Probes /= {} /\ ticks >= 1 /\ ~signal
    /\ pc = "Polling" /\ Last(written) = "whoami"

\* the state of the observer task staff_thread is in: 1 Listing,
\* 2 Subscribing, 3 Polling, 4 Draining, 5 Terminated, 0 once it has
\* returned an error or panicked
Phase(p) ==
    CASE p \in {"Listing", "ListingRead"} -> 1
      [] p \in {"Subscribing", "SubscribingRead"} -> 2
      [] p \in {"Polling", "PollRead", "Keepalive", "Classify", "Sleep"} -> 3
      [] p \in {"Draining", "SendTerminate"} -> 4
      [] p = "Terminated" -> 5
      [] OTHER -> 0

\* C22: staff_thread goes through Listing, Subscribing, Polling, Draining,
\* Terminated in that order, one at a time; Polling is entered only by the
\* step that has read the reply to the register command; while the task is
\* in Listing or Subscribing, or has failed there, no event chunk has been
\* read, no line classified and nothing enqueued; a failed query_clients
\* ends the task out of Listing and a failed register_events out of
\* Subscribing; and a task that has ended stays ended.
C22_StatesInOrder ==
    /\ [][(Phase(pc) /= 0 /\ Phase(pc') /= 0) =>
             Phase(pc') \in {Phase(pc), Phase(pc) + 1}]_vars
    /\ [][(pc' = "Polling" /\ Phase(pc) < 3) =>
             (/\ pc = "SubscribingRead"
              /\ written = <<"clientlist", "servernotifyregister">>
              /\ pending = <<"servernotifyregister">> /\ pending' = <<>>)]_vars
    /\ [](Phase(pc) \in {1, 2} \/ pc \in {"ErrQueryClient", "ErrRegister", "Panicked"}
             => (reads = 0 /\ enqueued = <<>> /\ data = <<>>
                 /\ lastStep = "none"))
    /\ [][(pc' = "ErrQueryClient" /\ pc' /= pc) => Phase(pc) = 1]_vars
    /\ [][(pc' = "ErrRegister" /\ pc' /= pc) => Phase(pc) = 2]_vars
    /\ [][(pc' = "Panicked" /\ pc' /= pc) => Phase(pc) \in {1, 2}]_vars
    /\ [][(pc \in Ended) => (pc' = pc)]_vars

\* C22 witness: the task went through every state, enqueued a notification
\* while polling, and is Terminated
C22_Witness ==
    /\ pc = "Terminated" /\ Len(enqueued) >= 2
    /\ written = <<"clientlist", "servernotifyregister", "quit">>

\* what the loop does with the record a line carries when that record is
\* the whole line, as it is on the first line of a frame
AsFirstLine(l) == ClassifyLine(Trim(l), client_map, ignore_list)

\* C23: the step that goes over a line of a frame carrying an enter or a
\* left record, at whatever position of the frame (after the first line the
\* line begins with the "\r" of the terminator "\n\r" before it), updates
\* the cache and enqueues exactly as it does for that record on the first
\* line.
C23_EveryLineClassified ==
    [][(/\ ClassifyStep
        /\ IsEnterLine(Trim(Head(data))) \/ IsLeftLine(Trim(Head(data)))) =>
          (/\ client_map' = AsFirstLine(Head(data)).map
           /\ (enqueued' /= enqueued) <=>
                (AsFirstLine(Head(data)).emit /= <<>> /\ ~ReceiverClosed))]_vars

\* the record lists query_clients returns for the replies to clientlist
Listed ==
    {query_operation_non_error(t).v :
        t \in {x \in ListTexts : query_operation_non_error(x).tag = "Ok"}}

\* the listed records whose client_type is not 1, and their client ids
Regular(recs) == {i \in 1..Len(recs) : recs[i].client_type /= 1}
RegularIds(recs) == {recs[i].clid : i \in Regular(recs)}

\* map holds exactly the client ids of the records of recs whose
\* client_type is not 1, each with the nickname of its first such record,
\* not ignored
IsSeedOf(map, recs) ==
    /\ DOMAIN map = RegularIds(recs)
    /\ \A c \in DOMAIN map :
          map[c] = [nick |-> recs[Min({i \in Regular(recs) :
                                          recs[i].clid = c})].nick,
                    ignored |-> FALSE]

\* C24: the cache is empty until query_clients has returned; the step that
\* ends the listing leaves in it exactly the client ids of the listed
\* records whose client_type is not 1, each with the nickname of the first
\* such record, and it stays so until an event chunk is read; and while the
\* cache is as seeded, the step that classifies a left event for a client
\* listed with client_type 1 only changes neither the cache nor the queue
\* and treats the client as unknown.
C24_SeedSkipsQueryClients ==
    /\ [](Phase(pc) = 1 => client_map = EmptyMap)
    /\ [][(pc = "ListingRead" /\ pc' = "Subscribing") =>
             \E recs \in Listed : IsSeedOf(client_map', recs)]_vars
    /\ []((Phase(pc) \in {2, 3} /\ reads = 0) =>
             \E recs \in Listed : IsSeedOf(client_map, recs))
    /\ [][(ClassifyStep /\ IsLeftLine(Head(data))) =>
            \A recs \in Listed : \A i \in 1..Len(recs) :
              (/\ recs[i].client_type = 1
               /\ recs[i].clid \notin RegularIds(recs)
               /\ FromQueryLeft(Head(data)).view.clid = recs[i].clid
               /\ IsSeedOf(client_map, recs))
              => (/\ client_map' = client_map
                  /\ enqueued' = enqueued /\ queue' = queue
                  /\ lastStep' = "left_unknown")]_vars

\* C24 witness: the listing held alice and the query client 2; the only
\* event read since is the left event of client 2, which found no entry
C24_Witness ==
    /\ IsSeedOf(client_map,
                <<ClientRec(1, 0, "alice"), ClientRec(2, 1, "query")>>)
    /\ 2 \notin DOMAIN client_map
    /\ reads = 1 /\ enqueued = <<>>
    /\ pc = "Classify" /\ data = <<<<CR>>>>
    /\ lastStep = "left_unknown"

=============================================================================
